---- MODULE Spec2Model ----
(***************************************************************************)
(* Precinct Lookup GUI (ArcgisJP.py).                                      *)
(*                                                                         *)
(* The form keeps four text fields.  The button's callback,                *)
(* get_precinct_info, strips and validates them, calls query_precinct      *)
(* (geocoder, then the ArcGIS feature service) and shows one modal dialog. *)
(* The callback blocks in three places, which are the positions of pc:     *)
(* inside geolocator.geocode ("Geocoding"), inside requests.get /          *)
(* raise_for_status / json ("Querying") and inside a messagebox            *)
(* ("Dialog").  The answers of the two services and the user's typing are  *)
(* the inputs of the model.                                                *)
(*                                                                         *)
(* A Python str is a sequence of characters; text the program writes       *)
(* itself (a label, a fixed message) is kept as one element.               *)
(***************************************************************************)
EXTENDS Integers, Sequences, FiniteSets, TLC

VARIABLES
    fields,        \* contents of street_entry, city_entry, state_entry, zip_entry
    pc,            \* where the callback is: Idle, Geocoding, Querying, Dialog
    address,       \* the stripped locals street_address, city, state, zip_code
    geoResp,       \* what geolocator.geocode answered in this submission
    featResp,      \* what the feature service answered in this submission
    calls,         \* the outbound calls of this submission, in order
    geocodeArgs,   \* the argument of each geocode call of this submission
    requestArgs,   \* the params of each requests.get of this submission
    shown,         \* the dialogs this submission has shown
    escaped,       \* the exception that left the callback, or "none"
    prev           \* history: the last finished submission (SpecTwice only)

vars == <<fields, pc, address, geoResp, featResp, calls, geocodeArgs,
          requestArgs, shown, escaped, prev>>

-----------------------------------------------------------------------------
(* Bounds *)

MaxFieldLen == 1
MaxFeatures == 2
MaxNameLen == 1

-----------------------------------------------------------------------------
(* Python strings *)

Whitespace == {" "}

StrsUpTo(alphabet, n) == UNION {[1..k -> alphabet] : k \in 0..n}

RECURSIVE lstrip(_)
lstrip(s) ==
    IF s # <<>> /\ Head(s) \in Whitespace THEN lstrip(Tail(s)) ELSE s

RECURSIVE rstrip(_)
rstrip(s) ==
    IF s # <<>> /\ s[Len(s)] \in Whitespace
    THEN rstrip(SubSeq(s, 1, Len(s) - 1))
    ELSE s

\* str.strip()
strip(s) == rstrip(lstrip(s))

\* sep.join(parts), parts a sequence of strings
RECURSIVE join(_, _)
join(sep, parts) ==
    IF parts = <<>> THEN <<>>
    ELSE IF Len(parts) = 1 THEN parts[1]
    ELSE parts[1] \o sep \o join(sep, Tail(parts))

RECURSIVE NatStr(_)
NatStr(n) ==
    LET d == <<"0", "1", "2", "3", "4", "5", "6", "7", "8", "9">>[(n % 10) + 1]
    IN  IF n < 10 THEN <<d>> ELSE NatStr(n \div 10) \o <<d>>

\* str() of a float holding a whole number of degrees, as an f-string writes it
FloatStr(n) ==
    (IF n < 0 THEN <<"-">> ELSE <<>>) \o NatStr(IF n < 0 THEN -n ELSE n) \o <<".", "0">>

-----------------------------------------------------------------------------
(* JSON / Python values: None, str, list, dict *)

PyNone == [t |-> "null", v |-> <<>>]
PyStr(s) == [t |-> "str", v |-> s]
PyList(s) == [t |-> "array", v |-> s]
PyDict(m) == [t |-> "object", v |-> m]

\* bool(value)
Truthy(x) ==
    CASE x.t = "null" -> FALSE
      [] x.t = "object" -> DOMAIN x.v # {}
      [] OTHER -> x.v # <<>>

\* a variant of Get that drops the default: dict.get(key)
GetWithoutDefault(d, key, default) == IF key \in DOMAIN d.v THEN d.v[key] ELSE PyNone

\* dict.get(key, default)
Get(d, key, default) == IF key \in DOMAIN d.v THEN d.v[key] ELSE default

\* the text of a value inside an f-string
Format(x) == IF x.t = "null" THEN <<"None">> ELSE x.v

-----------------------------------------------------------------------------
(* The form *)

FieldNames == {"street", "city", "state", "zip"}

FieldChars == {" ", "a"}

FieldValues == StrsUpTo(FieldChars, MaxFieldLen)

NoAddress == [street |-> <<>>, city |-> <<>>, state |-> <<>>, zip |-> <<>>]

NoResp == [k |-> "-", e |-> <<>>]

-----------------------------------------------------------------------------
(* Results of a call: a value, or a raised exception with its str() *)

Ok(value) == [ok |-> TRUE, v |-> value, exc |-> "none", msg |-> <<>>]

Raise(exception, message) ==
    [ok |-> FALSE, v |-> PyNone, exc |-> exception, msg |-> message]

-----------------------------------------------------------------------------
(* The geocoding service *)

NoLocation == [latitude |-> 0, longitude |-> 0]

Locations == {[latitude |-> 32, longitude |-> -97],
              [latitude |-> 33, longitude |-> -96]}

\* geolocator.geocode raises GeocoderServiceError, returns None, or returns a
\* Location
GeoResponses ==
    {[k |-> "GeocoderServiceError", e |-> <<"Service timed out">>, loc |-> NoLocation],
     [k |-> "None", e |-> <<>>, loc |-> NoLocation]}
    \cup {[k |-> "Location", e |-> <<>>, loc |-> l] : l \in Locations}

full_address(a) ==
    a.street \o <<",", " ">> \o a.city \o <<",", " ">> \o a.state \o <<" ">> \o a.zip

\* a variant of Geocode without the "if not location" check
GeocodeUnchecked(r) ==
    IF r.k = "GeocoderServiceError"
    THEN Raise("ValueError", <<"Geocoding error: ">> \o r.e)
    ELSE Ok(r.loc)

\* query_precinct, from the geocode call to the coordinates
Geocode(r) ==
    CASE r.k = "GeocoderServiceError" ->
            Raise("ValueError", <<"Geocoding error: ">> \o r.e)
      [] r.k = "None" ->
            Raise("ValueError", <<"Address could not be geocoded.">>)
      [] OTHER -> Ok(r.loc)

-----------------------------------------------------------------------------
(* The feature service *)

arcgis_url ==
    "https://services1.arcgis.com/Z3qsB1OAIjFLs23T/ArcGIS/rest/services/JP_Precincts_20181129/FeatureServer/0/query"

geometry(loc) ==
    <<"{x:">> \o FloatStr(loc.longitude) \o <<",y:">> \o FloatStr(loc.latitude) \o <<"}">>

params(loc) ==
    [f |-> "json",
     geometryType |-> "esriGeometryPoint",
     geometry |-> geometry(loc),
     spatialRel |-> "esriSpatialRelIntersects",
     inSR |-> "4326",
     outFields |-> "*",
     returnGeometry |-> "false",
     outSR |-> "4326"]

AttrNames == {"PRECINCT", "TITLE1", "FIRSTNAME1", "LASTNAME1", "ADDRESS1",
              "CITY1", "STATE1", "ZIP1", "TEL1"}

NameAttrs == {"TITLE1", "FIRSTNAME1", "LASTNAME1"}

\* the attributes of the two precincts the flow is exercised with; the first is
\* the complete record, the second lacks the title and the phone
PrecinctA ==
    [PRECINCT |-> PyStr(<<"3">>), TITLE1 |-> PyStr(<<"Judge">>),
     FIRSTNAME1 |-> PyStr(<<"Jane">>), LASTNAME1 |-> PyStr(<<"Doe">>),
     ADDRESS1 |-> PyStr(<<"100", " ", "Main", " ", "St">>),
     CITY1 |-> PyStr(<<"Dallas">>), STATE1 |-> PyStr(<<"TX">>),
     ZIP1 |-> PyStr(<<"75201">>), TEL1 |-> PyStr(<<"214-555-0100">>)]

PrecinctB ==
    [PRECINCT |-> PyStr(<<"5">>),
     FIRSTNAME1 |-> PyStr(<<"John">>), LASTNAME1 |-> PyStr(<<"Roe">>),
     ADDRESS1 |-> PyStr(<<"7", " ", "Elm", " ", "Ave">>),
     CITY1 |-> PyStr(<<"Irving">>), STATE1 |-> PyStr(<<"TX">>),
     ZIP1 |-> PyStr(<<"75060">>)]

\* a feature of the response: with an attributes mapping, with attributes
\* null, or without the key
Feature(attrs) == PyDict([attributes |-> PyDict(attrs)])

FlowFeatures ==
    {Feature(PrecinctA), Feature(PrecinctB),
     PyDict([attributes |-> PyNone]), PyDict(<<>>)}

FeatureLists(features, n) == UNION {[1..k -> features] : k \in 0..n}

\* the bodies response.json() can return
Bodies(features, n) ==
    {PyList(<<>>), PyDict(<<>>), PyDict([features |-> PyNone])}
    \cup {PyDict([features |-> PyList(fs)]) : fs \in FeatureLists(features, n)}

\* requests.get raises, raise_for_status raises, response.json() raises (with
\* requests' own JSONDecodeError, a RequestException, or with the json
\* module's, a ValueError, depending on the installed requests), or a body is
\* returned
FeatFailures ==
    {[k |-> "ConnectionError", e |-> <<"Connection refused">>, data |-> PyNone],
     [k |-> "HTTPError", e |-> <<"500 Server Error">>, data |-> PyNone],
     [k |-> "requests.JSONDecodeError", e |-> <<"Expecting value">>, data |-> PyNone],
     [k |-> "json.JSONDecodeError", e |-> <<"Expecting value">>, data |-> PyNone]}

Body(data) == [k |-> "json", e |-> <<>>, data |-> data]

FeatResponses(features, n) ==
    FeatFailures \cup {Body(d) : d \in Bodies(features, n)}

RequestExceptions == {"ConnectionError", "HTTPError", "requests.JSONDecodeError"}

\* a variant of FirstAttributes that takes the last feature
LastAttributes(features) ==
    LET last == features.v[Len(features.v)]
    IN  IF last.t # "object" THEN Raise("TypeError", <<>>)
        ELSE IF "attributes" \notin DOMAIN last.v THEN Raise("KeyError", <<"'attributes'">>)
        ELSE Ok(last.v["attributes"])

\* features[0]["attributes"]
FirstAttributes(features) ==
    LET first == features.v[1]
    IN  IF first.t # "object" THEN Raise("TypeError", <<>>)
        ELSE IF "attributes" \notin DOMAIN first.v THEN Raise("KeyError", <<"'attributes'">>)
        ELSE Ok(first.v["attributes"])

\* a variant of QueryFeatures without the "if not features" check: indexing
\* the empty list raises IndexError
QueryFeaturesUnchecked(r) ==
    IF r.k \in RequestExceptions
    THEN Raise("ValueError", <<"Error querying ArcGIS: ">> \o r.e)
    ELSE IF r.k = "json.JSONDecodeError" THEN Raise("ValueError", r.e)
    ELSE IF r.data.t # "object" THEN Raise("AttributeError", <<>>)
    ELSE LET features == Get(r.data, "features", PyList(<<>>))
         IN  IF features.v = <<>> THEN Raise("IndexError", <<>>)
             ELSE FirstAttributes(features)

\* query_precinct, from the request to the return
QueryFeatures(r) ==
    IF r.k \in RequestExceptions
    THEN Raise("ValueError", <<"Error querying ArcGIS: ">> \o r.e)
    ELSE IF r.k = "json.JSONDecodeError" THEN Raise("ValueError", r.e)
    ELSE IF r.data.t # "object" THEN Raise("AttributeError", <<>>)
    ELSE LET features == Get(r.data, "features", PyList(<<>>))
         IN  IF ~Truthy(features)
             THEN Raise("ValueError", <<"No precinct found.">>)
             ELSE FirstAttributes(features)

-----------------------------------------------------------------------------
(* The result formatter: get_precinct_info after the lookup *)

NamePartsOf(info) ==
    <<Get(info, "TITLE1", PyStr(<<>>)),
      Get(info, "FIRSTNAME1", PyStr(<<>>)),
      Get(info, "LASTNAME1", PyStr(<<>>))>>

\* a variant of Filter that keeps the empty parts
KeepAll(parts) == parts

\* filter(None, parts)
Filter(parts) == SelectSeq(parts, Truthy)

\* " ".join(filter(None, [...])).strip()
judge_full_name(info) ==
    LET kept == Filter(NamePartsOf(info))
    IN  strip(join(<<" ">>, [i \in 1..Len(kept) |-> kept[i].v]))

website(precinct_number) ==
    IF precinct_number # PyNone
    THEN <<"https://www.dallascounty.org/government/jpcourts/">>
         \o Format(precinct_number) \o <<"/">>
    ELSE <<"Website Not Found">>

results(info) ==
    LET precinct_number == Get(info, "PRECINCT", PyNone)
        name == judge_full_name(info)
        address_line == Get(info, "ADDRESS1", PyStr(<<"Address Not Found">>))
        city_arc == Get(info, "CITY1", PyStr(<<"City Not Found">>))
        state_arc == Get(info, "STATE1", PyStr(<<"State Not Found">>))
        zip_arc == Get(info, "ZIP1", PyStr(<<"ZIP Not Found">>))
        phone == Get(info, "TEL1", PyStr(<<"Phone Not Found">>))
    IN  <<"Precinct Number: ">>
        \o (IF precinct_number # PyNone THEN Format(precinct_number) ELSE <<"Not Found">>)
        \o <<"\n", "Judge: ">>
        \o (IF name # <<>> THEN name ELSE <<"Not Found">>)
        \o <<"\n", "Address: ">>
        \o Format(address_line) \o <<",", " ">> \o Format(city_arc) \o <<",", " ">>
        \o Format(state_arc) \o <<" ">> \o Format(zip_arc)
        \o <<"\n", "Phone: ">> \o Format(phone)
        \o <<"\n", "Website: ">> \o website(precinct_number)

\* a variant of FormatResults whose text piles up from one call to the next
FormatResultsAppending(info) ==
    IF info.t # "object" THEN Raise("AttributeError", <<>>)
    ELSE IF \E i \in 1..3 : Truthy(NamePartsOf(info)[i]) /\ NamePartsOf(info)[i].t # "str"
    THEN Raise("TypeError", <<>>)
    ELSE IF prev.outcome # <<>> /\ prev.outcome[1] # <<>> /\ prev.outcome[1][1].kind = "info"
    THEN Ok(prev.outcome[1][1].message \o <<"\n">> \o results(info))
    ELSE Ok(results(info))

\* precinct_info.get on something that is no dict raises AttributeError; join
\* on a part that is no str raises TypeError
FormatResults(info) ==
    IF info.t # "object" THEN Raise("AttributeError", <<>>)
    ELSE IF \E i \in 1..3 : Truthy(NamePartsOf(info)[i]) /\ NamePartsOf(info)[i].t # "str"
    THEN Raise("TypeError", <<>>)
    ELSE Ok(results(info))

-----------------------------------------------------------------------------
(* The form controller: get_precinct_info *)

ShowError(title, message) == [kind |-> "error", title |-> title, message |-> message]

ShowInfo(title, message) == [kind |-> "info", title |-> title, message |-> message]

\* a variant of StrippedFields that forgets to strip
UnstrippedFields(f) ==
    [street |-> f["street"], city |-> f["city"], state |-> f["state"], zip |-> f["zip"]]

\* the four entry.get().strip()
StrippedFields(f) ==
    [street |-> strip(f["street"]), city |-> strip(f["city"]),
     state |-> strip(f["state"]), zip |-> strip(f["zip"])]

\* all([street_address, city, state, zip_code])
AllFilled(a) == a.street # <<>> /\ a.city # <<>> /\ a.state # <<>> /\ a.zip # <<>>

\* except ValueError as e: what the try around query_precinct catches
Caught(r) == r.exc = "ValueError"

\* the end of the callback, given what query_precinct returned or raised:
\* the dialog shown, or the exception that leaves the callback
Conclude(q) ==
    IF ~q.ok
    THEN IF Caught(q)
         THEN [shown |-> <<ShowError("Lookup Error", q.msg)>>, escaped |-> "none"]
         ELSE [shown |-> <<>>, escaped |-> q.exc]
    ELSE LET r == FormatResults(q.v)
         IN  IF r.ok
             THEN [shown |-> <<ShowInfo("Precinct Information", r.v)>>, escaped |-> "none"]
             ELSE [shown |-> <<>>, escaped |-> r.exc]

-----------------------------------------------------------------------------
(* History of the last finished submission, kept for SpecTwice *)

NoPrev == [key |-> <<>>, outcome |-> <<>>]

Key == <<address, geoResp, featResp>>

Outcome == <<shown, calls, geocodeArgs, requestArgs, escaped>>

\* a submission is finished when its dialog is up (only the return follows) or
\* when an exception has left the callback
Finished == pc = "Dialog" \/ escaped # "none"

Archive(rec) ==
    prev' = IF rec /\ Finished THEN [key |-> Key, outcome |-> Outcome] ELSE prev

-----------------------------------------------------------------------------
(* Actions *)

Init ==
    /\ fields = [f \in FieldNames |-> <<>>]
    /\ pc = "Idle"
    /\ address = NoAddress
    /\ geoResp = NoResp
    /\ featResp = NoResp
    /\ calls = <<>>
    /\ geocodeArgs = <<>>
    /\ requestArgs = <<>>
    /\ shown = <<>>
    /\ escaped = "none"
    /\ prev = NoPrev

\* the record of the submission before is dropped when the user goes on
Forget ==
    /\ address' = NoAddress
    /\ geoResp' = NoResp
    /\ featResp' = NoResp
    /\ calls' = <<>>
    /\ geocodeArgs' = <<>>
    /\ requestArgs' = <<>>
    /\ shown' = <<>>
    /\ escaped' = "none"

\* the user types into one entry; the window takes input only between callbacks
EditField(f, s) ==
    /\ pc = "Idle"
    /\ fields' = [fields EXCEPT ![f] = s]
    /\ pc' = "Idle"
    /\ Forget
    /\ Archive(FALSE)

\* the button: get_precinct_info up to the validation dialog or the geocode call
Submit(rec) ==
    /\ pc = "Idle"
    /\ LET a == StrippedFields(fields)
       IN  /\ address' = a
           /\ IF ~AllFilled(a)
              THEN /\ shown' = <<ShowError("Input Error", <<"Please fill in all address fields.">>)>>
                   /\ pc' = "Dialog"
                   /\ calls' = <<>>
                   /\ geocodeArgs' = <<>>
              ELSE /\ shown' = <<>>
                   /\ pc' = "Geocoding"
                   /\ calls' = <<"geocode">>
                   /\ geocodeArgs' = <<full_address(a)>>
    /\ geoResp' = NoResp
    /\ featResp' = NoResp
    /\ requestArgs' = <<>>
    /\ escaped' = "none"
    /\ Archive(rec)
    /\ UNCHANGED fields

\* geolocator.geocode answers: query_precinct up to the request, or the
\* ValueError caught in get_precinct_info
GeocodeReturn(r) ==
    /\ pc = "Geocoding"
    /\ geoResp' = r
    /\ LET g == Geocode(r)
       IN  IF g.ok
           THEN /\ pc' = "Querying"
                /\ calls' = Append(calls, "get")
                /\ requestArgs' = Append(requestArgs, [url |-> arcgis_url, params |-> params(g.v)])
                /\ UNCHANGED <<shown, escaped>>
           ELSE /\ pc' = IF Conclude(g).escaped = "none" THEN "Dialog" ELSE "Idle"
                /\ shown' = shown \o Conclude(g).shown
                /\ escaped' = Conclude(g).escaped
                /\ UNCHANGED <<calls, requestArgs>>
    /\ UNCHANGED <<fields, address, featResp, geocodeArgs, prev>>

\* the feature service answers: the rest of query_precinct and of the callback
QueryReturn(r) ==
    /\ pc = "Querying"
    /\ featResp' = r
    /\ LET c == Conclude(QueryFeatures(r))
       IN  /\ pc' = IF c.escaped = "none" THEN "Dialog" ELSE "Idle"
           /\ shown' = shown \o c.shown
           /\ escaped' = c.escaped
    /\ UNCHANGED <<fields, address, geoResp, calls, geocodeArgs, requestArgs, prev>>

\* the user closes the dialog and the callback returns
Dismiss(rec) ==
    /\ pc = "Dialog"
    /\ pc' = "Idle"
    /\ Forget
    /\ Archive(rec)
    /\ UNCHANGED fields

Next ==
    \/ \E f \in FieldNames, s \in FieldValues : EditField(f, s)
    \/ Submit(FALSE)
    \/ \E r \in GeoResponses : GeocodeReturn(r)
    \/ \E r \in FeatResponses(FlowFeatures, MaxFeatures) : QueryReturn(r)
    \/ Dismiss(FALSE)

Spec == Init /\ [][Next]_vars

-----------------------------------------------------------------------------
(* The formatter over every shape of the first feature's attributes: each   *)
(* attribute absent or present, the name parts also null, empty, blank or   *)
(* padded, the precinct number also null.                                   *)

Absent == [t |-> "absent", v |-> <<>>]

\* the mapping with the absent keys left out
Present(f) == [k \in {x \in DOMAIN f : f[x] # Absent} |-> f[k]]

NameChars == {" ", "n"}

NameOptions == {Absent, PyNone} \cup {PyStr(s) : s \in StrsUpTo(NameChars, MaxNameLen)}

PrecinctOptions == {Absent, PyNone, PyStr(<<"3">>)}

Option(value) == {Absent, PyStr(value)}

ValidForm == [f \in FieldNames |-> <<"a">>]

InitFmt ==
    /\ fields = ValidForm
    /\ pc = "Idle"
    /\ address = NoAddress
    /\ geoResp = NoResp
    /\ featResp = NoResp
    /\ calls = <<>>
    /\ geocodeArgs = <<>>
    /\ requestArgs = <<>>
    /\ shown = <<>>
    /\ escaped = "none"
    /\ prev = NoPrev

OneFeature(attrs) == Body(PyDict([features |-> PyList(<<Feature(attrs)>>)]))

QueryReturnsFeature ==
    /\ pc = "Querying"
    /\ \E p \in PrecinctOptions, t \in NameOptions, f \in NameOptions, l \in NameOptions,
       a \in Option(<<"100", " ", "Main", " ", "St">>), c \in Option(<<"Dallas">>),
       s \in Option(<<"TX">>), z \in Option(<<"75201">>),
       ph \in Option(<<"214-555-0100">>) :
        QueryReturn(OneFeature(Present(
            [PRECINCT |-> p, TITLE1 |-> t, FIRSTNAME1 |-> f, LASTNAME1 |-> l,
             ADDRESS1 |-> a, CITY1 |-> c, STATE1 |-> s, ZIP1 |-> z, TEL1 |-> ph])))

NextFmt ==
    \/ Submit(FALSE)
    \/ \E r \in GeoResponses : GeocodeReturn(r)
    \/ QueryReturnsFeature
    \/ Dismiss(FALSE)

SpecFmt == InitFmt /\ [][NextFmt]_vars

-----------------------------------------------------------------------------
(* Submissions one after another, the one before kept in prev.  The form is *)
(* filled from four samples: an address, the same address padded with       *)
(* blanks, another address, and a form with a blank city.                   *)

SampleForms ==
    {ValidForm,
     [ValidForm EXCEPT !["street"] = <<" ", "a">>, !["zip"] = <<"a", " ">>],
     [ValidForm EXCEPT !["street"] = <<"a", "a">>],
     [ValidForm EXCEPT !["city"] = <<" ">>]}

\* the user retypes the form
FillForm(form) ==
    /\ pc = "Idle"
    /\ fields' = form
    /\ pc' = "Idle"
    /\ Forget
    /\ Archive(TRUE)

NextTwice ==
    \/ \E form \in SampleForms : FillForm(form)
    \/ Submit(TRUE)
    \/ \E r \in GeoResponses : GeocodeReturn(r)
    \/ \E r \in FeatResponses(FlowFeatures, MaxFeatures) : QueryReturn(r)
    \/ Dismiss(TRUE)

SpecTwice == Init /\ [][NextTwice]_vars

-----------------------------------------------------------------------------
(* Vocabulary of the properties *)

\* empty or whitespace-only
Blank(s) == \A i \in 1..Len(s) : s[i] \in Whitespace

SomeFieldBlank == \E f \in FieldNames : Blank(fields[f])

ValidationDialog == ShowError("Input Error", <<"Please fill in all address fields.">>)

LookupError(message) == ShowError("Lookup Error", message)

\* the features array of the response body, when the body is an object that
\* has one
HasFeaturesArray ==
    /\ featResp.k = "json"
    /\ featResp.data.t = "object"
    /\ "features" \in DOMAIN featResp.data.v
    /\ featResp.data.v["features"].t = "array"

FeaturesArray == featResp.data.v["features"].v

\* the first feature carries an attributes mapping
FirstHasAttributes ==
    /\ HasFeaturesArray
    /\ FeaturesArray # <<>>
    /\ FeaturesArray[1].t = "object"
    /\ "attributes" \in DOMAIN FeaturesArray[1].v
    /\ FeaturesArray[1].v["attributes"].t = "object"

FirstAttrs == FeaturesArray[1].v["attributes"].v

RECURSIVE SplitLines(_)
SplitLines(text) ==
    IF \A i \in 1..Len(text) : text[i] # "\n" THEN <<text>>
    ELSE LET i == CHOOSE j \in 1..Len(text) :
                      text[j] = "\n" /\ \A h \in 1..(j - 1) : text[h] # "\n"
         IN  <<SubSeq(text, 1, i - 1)>> \o SplitLines(SubSeq(text, i + 1, Len(text)))

\* the lines of the summary on display
SummaryLines == SplitLines(shown[1].message)

SummaryShown == pc = "Dialog" /\ Len(shown) = 1 /\ shown[1].kind = "info"

-----------------------------------------------------------------------------
(* C1: a submission with a field that is empty or whitespace-only calls     *)
(* neither service, shows exactly the one validation dialog, and the form   *)
(* never leaves Idle for a lookup.  The fields do not change during a       *)
(* submission, so "some field is blank" speaks of the submission at hand.   *)

C1_BlankFieldNoNetwork ==
    SomeFieldBlank =>
        /\ pc \in {"Idle", "Dialog"}
        /\ calls = <<>> /\ geocodeArgs = <<>> /\ requestArgs = <<>>
        /\ geoResp = NoResp /\ featResp = NoResp
        /\ escaped = "none"
        /\ pc = "Dialog" => shown = <<ValidationDialog>>
        /\ pc = "Idle" => shown = <<>>

C1_Witness ==
    /\ pc = "Dialog"
    /\ fields["street"] = <<"a">>
    /\ fields["city"] = <<" ">>
    /\ shown = <<ValidationDialog>>

-----------------------------------------------------------------------------
(* C3: when the geocoder returns no location, the one dialog of the         *)
(* submission is the error "Address could not be geocoded." and the feature *)
(* service is not called.                                                   *)

C3_NoLocationNoQuery ==
    geoResp.k = "None" =>
        /\ pc = "Dialog"
        /\ shown = <<LookupError(<<"Address could not be geocoded.">>)>>
        /\ calls = <<"geocode">>
        /\ requestArgs = <<>>
        /\ featResp = NoResp

C3_Witness ==
    /\ geoResp.k = "None"
    /\ pc = "Dialog"
    /\ Len(shown) = 1

-----------------------------------------------------------------------------
(* C4: when the feature service answers with a body whose features array is *)
(* empty, the one dialog of the submission is the error "No precinct        *)
(* found." and no summary is shown.                                         *)

C4_EmptyFeaturesNoPrecinct ==
    (HasFeaturesArray /\ FeaturesArray = <<>>) =>
        /\ pc = "Dialog"
        /\ shown = <<LookupError(<<"No precinct found.">>)>>
        /\ escaped = "none"

C4_Witness ==
    /\ HasFeaturesArray
    /\ FeaturesArray = <<>>
    /\ pc = "Dialog"

-----------------------------------------------------------------------------
(* Failure outcomes of the two services within the submission at hand *)

GeocoderFailed == geoResp.k \in {"GeocoderServiceError", "None"}

\* the request failed, the status was no success, the body could not be
\* parsed, the body is malformed (no object, or a first feature without an
\* attributes mapping), or the result set is empty
FeatureServiceFailed == featResp # NoResp /\ ~FirstHasAttributes

\* the message the callback gives each failure it signals itself
FailureMessage ==
    CASE geoResp.k = "GeocoderServiceError" -> <<"Geocoding error: ">> \o geoResp.e
      [] geoResp.k = "None" -> <<"Address could not be geocoded.">>
      [] featResp.k \in {"ConnectionError", "HTTPError", "requests.JSONDecodeError"} ->
            <<"Error querying ArcGIS: ">> \o featResp.e
      [] featResp.k = "json.JSONDecodeError" -> featResp.e
      [] OTHER -> <<"No precinct found.">>

-----------------------------------------------------------------------------
(* C2: every failure of the geocoder (service error, no location) and of    *)
(* the feature service (request failure, non-success status, unparseable or *)
(* malformed body, empty result set) ends in one error dialog with a        *)
(* message, and no exception leaves the callback.                           *)

C2_AllErrorsCaught ==
    /\ escaped = "none"
    /\ (GeocoderFailed \/ FeatureServiceFailed) =>
          /\ pc = "Dialog"
          /\ Len(shown) = 1
          /\ shown[1].kind = "error"
          /\ shown[1].message # <<>>

-----------------------------------------------------------------------------
(* C5: every finished submission has shown exactly one dialog, the summary  *)
(* or an error; the summary only if validation, geocoding and the feature   *)
(* query all succeeded.                                                     *)

C5_ExactlyOneDialog ==
    Finished =>
        /\ Len(shown) = 1
        /\ shown[1].kind \in {"info", "error"}
        /\ shown[1].kind = "info" =>
              /\ ~SomeFieldBlank
              /\ geoResp.k = "Location"
              /\ FirstHasAttributes

-----------------------------------------------------------------------------
(* C8: the geocoder is called before the feature service, each at most once *)
(* per submission; the feature service only after a location was returned,  *)
(* with its longitude as x and its latitude as y; the first failure of      *)
(* either stage ends the flow and its message is the one displayed.         *)

\* the order and the arguments of the calls
C8_CallsInOrder ==
    /\ calls \in {<<>>, <<"geocode">>, <<"geocode", "get">>}
    /\ Len(geocodeArgs) = (IF calls = <<>> THEN 0 ELSE 1)
    /\ Len(requestArgs) = (IF "get" \in {calls[i] : i \in 1..Len(calls)} THEN 1 ELSE 0)
    /\ requestArgs # <<>> =>
          /\ geoResp.k = "Location"
          /\ requestArgs[1].params.geometry =
                <<"{x:">> \o FloatStr(geoResp.loc.longitude)
                \o <<",y:">> \o FloatStr(geoResp.loc.latitude) \o <<"}">>
    /\ featResp # NoResp => requestArgs # <<>>
    /\ GeocoderFailed => (calls = <<"geocode">> /\ featResp = NoResp)

\* the failure that ended the flow is the one displayed
C8_FailureDisplayed ==
    (GeocoderFailed \/ FeatureServiceFailed) =>
        /\ Len(shown) = 1
        /\ shown[1].kind = "error"
        /\ (GeocoderFailed \/ featResp.k # "json" \/ (HasFeaturesArray /\ FeaturesArray = <<>>)) =>
              shown[1].message = FailureMessage

\* C8: the calls come in order, and the failure that ended the flow is the one
\* displayed
C8_GeocodeThenQuery == C8_CallsInOrder /\ C8_FailureDisplayed

-----------------------------------------------------------------------------
(* C10: with a non-empty features array the outcome is that of the first    *)
(* feature alone, whatever follows it; when the first feature has an        *)
(* attributes mapping the summary is the one formatted from it.             *)

FirstOnly == Body(PyDict([features |-> PyList(<<FeaturesArray[1]>>)]))

C10_FirstFeatureOnly ==
    (HasFeaturesArray /\ FeaturesArray # <<>>) =>
        /\ shown = Conclude(QueryFeatures(FirstOnly)).shown
        /\ escaped = Conclude(QueryFeatures(FirstOnly)).escaped
        /\ FirstHasAttributes =>
              shown = <<ShowInfo("Precinct Information", results(PyDict(FirstAttrs)))>>

C10_Witness ==
    /\ HasFeaturesArray
    /\ Len(FeaturesArray) >= 2
    /\ FeaturesArray[1] = Feature(PrecinctA)
    /\ FeaturesArray[2] = Feature(PrecinctB)
    /\ SummaryShown

-----------------------------------------------------------------------------
(* C9: a finished submission whose stripped fields and service answers are  *)
(* those of the submission finished before it has the same outcome: the     *)
(* same dialog with the same text, the same calls with the same arguments,  *)
(* the same exception if one escaped.  The submission before may be the     *)
(* same address again or, the form retyped in between, any other one.       *)

C9_SameInputsSameOutcome ==
    (Finished /\ prev # NoPrev /\ Key = prev.key) => Outcome = prev.outcome

C9_Witness ==
    /\ SummaryShown
    /\ prev # NoPrev
    /\ Key = prev.key
    /\ prev.outcome[1] = shown

-----------------------------------------------------------------------------
(* Vocabulary of the formatter's properties *)

Has(k) == k \in DOMAIN FirstAttrs

\* present, a string, and not the empty string
NonEmpty(k) == Has(k) /\ FirstAttrs[k].t = "str" /\ FirstAttrs[k].v # <<>>

\* the text of an attribute, or the placeholder when the key is absent
TextOr(k, placeholder) == IF Has(k) THEN Format(FirstAttrs[k]) ELSE <<placeholder>>

Elements(line) == {line[i] : i \in 1..Len(line)}

\* no whitespace at either end
EdgeClean(s) == s = <<>> \/ (s[1] \notin Whitespace /\ s[Len(s)] \notin Whitespace)

NoDoubledSpace(s) ==
    \A i \in 1..(Len(s) - 1) : ~(s[i] \in Whitespace /\ s[i + 1] \in Whitespace)

\* two texts with one space between them, an empty one skipped
Spaced(x, y) == IF x = <<>> THEN y ELSE IF y = <<>> THEN x ELSE x \o <<" ">> \o y

\* s without the whitespace at its ends, said without strip
IsStripOf(x, s) ==
    \/ x = <<>> /\ Blank(s)
    \/ \E i \in 1..Len(s), j \in 1..Len(s) :
          /\ i <= j
          /\ x = SubSeq(s, i, j)
          /\ s[i] \notin Whitespace /\ s[j] \notin Whitespace
          /\ Blank(SubSeq(s, 1, i - 1))
          /\ Blank(SubSeq(s, j + 1, Len(s)))

\* what the Judge line holds after its label
JudgeText == SubSeq(SummaryLines[2], 2, Len(SummaryLines[2]))

AddressLine ==
    <<"Address: ">> \o TextOr("ADDRESS1", "Address Not Found") \o <<",", " ">>
    \o TextOr("CITY1", "City Not Found") \o <<",", " ">>
    \o TextOr("STATE1", "State Not Found") \o <<" ">> \o TextOr("ZIP1", "ZIP Not Found")

-----------------------------------------------------------------------------
(* C6 as stated: for every set of absent attributes formatting succeeds,    *)
(* gives five lines, and the line of each absent attribute carries that     *)
(* attribute's placeholder.                                                 *)

LineOf(k) ==
    CASE k = "PRECINCT" -> 1
      [] k \in NameAttrs -> 2
      [] k = "TEL1" -> 4
      [] OTHER -> 3

PlaceholderOf(k) ==
    CASE k = "ADDRESS1" -> "Address Not Found"
      [] k = "CITY1" -> "City Not Found"
      [] k = "STATE1" -> "State Not Found"
      [] k = "ZIP1" -> "ZIP Not Found"
      [] k = "TEL1" -> "Phone Not Found"
      [] OTHER -> "Not Found"

C6_EveryAbsentAttributeGetsPlaceholder ==
    FirstHasAttributes =>
        /\ SummaryShown
        /\ Len(SummaryLines) = 5
        /\ \A k \in AttrNames \ DOMAIN FirstAttrs :
              PlaceholderOf(k) \in Elements(SummaryLines[LineOf(k)])

(* C6 as amended: formatting succeeds and gives five lines; an absent       *)
(* ADDRESS1, CITY1, STATE1, ZIP1 or TEL1 is replaced in place by its own    *)
(* "<Field> Not Found"; an absent PRECINCT gives "Precinct Number: Not      *)
(* Found" and "Website: Website Not Found"; an absent name part is skipped  *)
(* without a placeholder, and the Judge line reads "Not Found" when all     *)
(* three are absent.                                                        *)

C6_Placeholders ==
    FirstHasAttributes =>
        /\ SummaryShown
        /\ escaped = "none"
        /\ Len(SummaryLines) = 5
        /\ ~Has("PRECINCT") =>
              /\ SummaryLines[1] = <<"Precinct Number: ", "Not Found">>
              /\ SummaryLines[5] = <<"Website: ", "Website Not Found">>
        /\ SummaryLines[3] = AddressLine
        /\ SummaryLines[4] = <<"Phone: ">> \o TextOr("TEL1", "Phone Not Found")
        /\ (\A k \in NameAttrs : ~Has(k)) => SummaryLines[2] = <<"Judge: ", "Not Found">>
        /\ ((\E k \in NameAttrs : ~Has(k))
              /\ (\E k \in NameAttrs : NonEmpty(k) /\ ~Blank(FirstAttrs[k].v))) =>
              "Not Found" \notin Elements(SummaryLines[2])

C6_Witness ==
    /\ FirstHasAttributes
    /\ SummaryShown
    /\ DOMAIN FirstAttrs = {"PRECINCT", "FIRSTNAME1", "ADDRESS1", "STATE1"}
    /\ FirstAttrs["FIRSTNAME1"].v = <<"n">>
    /\ SummaryLines[2] = <<"Judge: ", "n">>
    /\ SummaryLines[4] = <<"Phone: ", "Phone Not Found">>

-----------------------------------------------------------------------------
(* C7 as stated: with all nine attributes present and non-empty the summary *)
(* is exactly the five lines of the template; with some name parts empty    *)
(* the others are joined by single spaces, with no leading, trailing or     *)
(* doubled space.                                                           *)

Attr(k) == FirstAttrs[k].v

Template(judge) ==
    <<"Precinct Number: ">> \o Attr("PRECINCT")
    \o <<"\n", "Judge: ">> \o judge
    \o <<"\n", "Address: ">> \o Attr("ADDRESS1") \o <<",", " ">> \o Attr("CITY1")
    \o <<",", " ">> \o Attr("STATE1") \o <<" ">> \o Attr("ZIP1")
    \o <<"\n", "Phone: ">> \o Attr("TEL1")
    \o <<"\n", "Website: ", "https://www.dallascounty.org/government/jpcourts/">>
    \o Attr("PRECINCT") \o <<"/">>

FullName == Attr("TITLE1") \o <<" ">> \o Attr("FIRSTNAME1") \o <<" ">> \o Attr("LASTNAME1")

AllNonEmpty == \A k \in AttrNames : NonEmpty(k)

\* the three name parts are strings, at least one of them empty and at least
\* one not
SomeNamePartsEmpty ==
    /\ \A k \in NameAttrs : Has(k) /\ FirstAttrs[k].t = "str"
    /\ \E k \in NameAttrs : Attr(k) = <<>>
    /\ \E k \in NameAttrs : Attr(k) # <<>>

RemainingJoined == Spaced(Attr("TITLE1"), Spaced(Attr("FIRSTNAME1"), Attr("LASTNAME1")))

NamePartsEdgeClean == \A k \in NameAttrs : EdgeClean(Attr(k)) /\ NoDoubledSpace(Attr(k))

====
